---- MODULE Spec2Model ----
(***************************************************************************)
(* Model of the io_uring reactor core, src/src/driver/mod.rs.              *)
(*                                                                         *)
(* One thread of control runs the driver's operations; `pc` is its         *)
(* position.  The kernel runs beside it: it completes the entries it was   *)
(* given, in any order, and decides the outcome of every submit and wait.  *)
(* The variables under "history" record what happened and are read by the  *)
(* properties only; no action's guard or effect depends on them.           *)
(***************************************************************************)
EXTENDS Integers, Sequences, FiniteSets, TLC

\* ------------------------------------------------------------------------
\* Bounds of the model
\* ------------------------------------------------------------------------

\* Entries a kernel submission ring holds (IoUring::new(256) in the code).
SqCapacity == 1

\* Submission entries enqueued over one behaviour.
MaxEntries == 3

\* Where the counters of the history stop counting.  No call reaches it.
CountCap == 8

\* Raw completion codes tried on the Result Translator: this many next to
\* each end of the i32 range and on each side of 0.
RawSpan == 20

\* ------------------------------------------------------------------------
\* Program constants
\* ------------------------------------------------------------------------

\* u64::MAX, the user_data of the completion of a cancel request.  Written
\* as the two's complement reading of the same 64 bits: no slab index is
\* negative, so it differs from every index as u64::MAX does.
CancelToken == -1

\* cqe.result() is an i32.
I32Max == 2147483647
I32Min == -I32Max - 1

\* Raw completion codes the kernel posts (cqe.result()).
ResCodes == {-2, 5}

VARIABLES
    ops,          \* Inner::ops, the slab: [entries, next, len]
    submissions,  \* Inner::submissions, the pending buffer (VecDeque)
    sq,           \* kernel submission ring: pushed, not yet submitted
    inflight,     \* entries the kernel owns: submitted, not yet completed
    cq,           \* kernel completion ring: posted, not yet consumed
    pc,           \* position of the thread
    batch,        \* flush_completions: events visible at cq.sync(), not yet iterated
    flushed,      \* flush_completions: local `flushed`
    fcRet,        \* flush_completions: who called it
    \* history
    enqLog,       \* the entries enqueued, in order
    pushLog,      \* the entries pushed into the submission ring, in order
    fs,           \* facts about the flush_submissions call running or just returned
    td,           \* facts about the teardown (Driver::drop)
    fcVisible,    \* events visible at cq.sync() of the running flush_completions
    submitted,    \* the entries handed to the kernel so far
    tr            \* Result Translator on its own: a raw code and what it yields

vars == <<ops, submissions, sq, inflight, cq, pc, batch, flushed, fcRet,
          enqLog, pushLog, fs, td, fcVisible, submitted, tr>>

\* ------------------------------------------------------------------------
\* Result Translator
\* ------------------------------------------------------------------------

\* resultify: Ok(res as u32) when res >= 0, Err(from_raw_os_error(-res)) else.
resultifyZeroIsError(res) ==
    IF res > 0 THEN [ok |-> TRUE, val |-> res]
    ELSE [ok |-> FALSE, val |-> -res]
resultify(res) ==
    IF res >= 0 THEN [ok |-> TRUE, val |-> res]
    ELSE [ok |-> FALSE, val |-> -res]

NoResult == [ok |-> TRUE, val |-> -1]

\* ------------------------------------------------------------------------
\* Operation Registry: Ops(Slab<op::Lifecycle>)
\* ------------------------------------------------------------------------
\* A slab entry is Occupied(lifecycle) or Vacant(next free key).  Both are
\* written as one record: st is the lifecycle state or "Vacant", next the
\* free-list link of a vacant entry, res the result a Completed slot buffers.
\* Keys count from 0; entries[key + 1] is the entry of key.

Occupied(st, res) == [st |-> st, next |-> 0, res |-> res]
Vacant(next) == [st |-> "Vacant", next |-> next, res |-> NoResult]

\* Ops::new
OpsNew == [entries |-> <<>>, next |-> 0, len |-> 0]

IsLive(o, index) ==
    /\ index >= 0
    /\ index < Len(o.entries)
    /\ o.entries[index + 1].st # "Vacant"

LiveKeys(o) == {k \in 0..(Len(o.entries) - 1) : IsLive(o, k)}

StateOf(o, index) == IF IsLive(o, index) THEN o.entries[index + 1].st ELSE "Vacant"

\* Driver::num_operations
num_operations == ops.len

\* Slab::insert as Ops::insert uses it: the key is the head of the free
\* list, or the end of the storage when the list is empty.
InsertKey(o) == o.next

InsertNextBuggy(o) == o.next
InsertNext(o) ==
    IF o.next = Len(o.entries) THEN o.next + 1 ELSE o.entries[o.next + 1].next

\* Ops::insert: the slab after the insertion (the key is InsertKey(o)).
OpsInsert(o) ==
    LET key == InsertKey(o)
        occ == Occupied("Submitted", NoResult)
    IN  [entries |-> IF key = Len(o.entries)
                     THEN Append(o.entries, occ)
                     ELSE [o.entries EXCEPT ![key + 1] = occ],
         next    |-> InsertNext(o),
         len     |-> o.len + 1]

\* Ops::remove (Slab::remove): the entry becomes the head of the free list.
OpsRemove(o, index) ==
    [entries |-> [o.entries EXCEPT ![index + 1] = Vacant(o.next)],
     next    |-> index,
     len     |-> o.len - 1]

\* op::Lifecycle::complete: the lifecycle after a kernel completion and
\* whether the slot is now terminal.
LifecycleComplete(lc, result) ==
    IF lc.st = "Ignored"
    THEN [lc |-> lc, terminal |-> TRUE]
    ELSE [lc |-> Occupied("Completed", result), terminal |-> FALSE]

\* Ops::complete: feed the completion to the slot, remove it when terminal.
OpsCompleteNoRemove(o, index, result) ==
    [o EXCEPT !.entries[index + 1] = LifecycleComplete(o.entries[index + 1], result).lc]
OpsCompleteAlwaysRemove(o, index, result) ==
    OpsRemove([o EXCEPT !.entries[index + 1] =
                  LifecycleComplete(o.entries[index + 1], result).lc], index)
OpsComplete(o, index, result) ==
    LET r == LifecycleComplete(o.entries[index + 1], result)
        fed == [o EXCEPT !.entries[index + 1] = r.lc]
    IN  IF r.terminal THEN OpsRemove(fed, index) ELSE fed

\* ------------------------------------------------------------------------
\* Initial state: Driver::new
\* ------------------------------------------------------------------------

\* flush_submissions, as the properties see a call.  While it runs: the
\* lengths of the pending buffer and of the submission ring when it started,
\* and the pushes, failed pushes, submit attempts and successful submits it
\* made so far, and whether one of its submits reported busy.  Kept after it
\* returned, until the caller's next step: whether a busy submit that
\* drained events was still waiting for its retry, whether a busy submit
\* drained nothing, what its last submit reported ("none": it made none),
\* and the result ("none" when no call just returned, "running" during one).
FsNone == [startPending |-> 0, startSq |-> 0, pushed |-> 0, putBacks |-> 0,
           submits |-> 0, okSubmits |-> 0, busy |-> FALSE, retryOwed |-> FALSE,
           zeroDrain |-> FALSE, last |-> "none", result |-> "none"]

Tick(n) == IF n < CountCap THEN n + 1 ELSE n

FsReturned(f, result) ==
    [FsNone EXCEPT !.retryOwed = f.retryOwed, !.zeroDrain = f.zeroDrain,
                   !.last = f.last, !.result = result]

\* Driver::drop, as the properties see it: the live slots when it started,
\* the slot completions it drained, and whether none of those slots had
\* completed when it started.
TdNone == [K |-> 0, drained |-> 0, pristine |-> FALSE]

\* The translator has not been applied on its own.
TrNone == [raw |-> 0, out |-> [kind |-> "none", val |-> 0]]

Init ==
    /\ ops = OpsNew
    /\ submissions = <<>>
    /\ sq = <<>>
    /\ inflight = {}
    /\ cq = <<>>
    /\ pc = "idle"
    /\ batch = <<>>
    /\ flushed = 0
    /\ fcRet = "idle"
    /\ enqLog = <<>>
    /\ pushLog = <<>>
    /\ fs = FsNone
    /\ td = TdNone
    /\ fcVisible = 0
    /\ submitted = {}
    /\ tr = TrNone

Range(s) == {s[i] : i \in 1..Len(s)}

\* ------------------------------------------------------------------------
\* Operation builders and observers (op.rs): the callers of the registry
\* ------------------------------------------------------------------------

\* A collaborator registers an operation: it takes a slot from the registry,
\* builds the entry with user_data = the slot's index and appends it to the
\* pending buffer.
SubmitOp ==
    /\ pc = "idle"
    /\ fs' = FsNone
    /\ Len(enqLog) < MaxEntries
    /\ LET sqe == [user_data |-> InsertKey(ops), id |-> Len(enqLog) + 1]
       IN  /\ ops' = OpsInsert(ops)
           /\ submissions' = Append(submissions, sqe)
           /\ enqLog' = Append(enqLog, sqe)
    /\ UNCHANGED <<sq, inflight, cq, pc, batch, flushed, fcRet, pushLog, td>>
    /\ UNCHANGED <<fcVisible, submitted, tr>>

\* A collaborator enqueues a cancel request: its entry carries the reserved
\* identifier and takes no slot.
SubmitCancel ==
    /\ pc = "idle"
    /\ fs' = FsNone
    /\ Len(enqLog) < MaxEntries
    /\ LET sqe == [user_data |-> CancelToken, id |-> Len(enqLog) + 1]
       IN  /\ submissions' = Append(submissions, sqe)
           /\ enqLog' = Append(enqLog, sqe)
    /\ UNCHANGED <<ops, sq, inflight, cq, pc, batch, flushed, fcRet, pushLog, td>>
    /\ UNCHANGED <<fcVisible, submitted, tr>>

SetState(o, index, st) == [o EXCEPT !.entries[index + 1].st = st]

\* The observer polls before the kernel completed: Submitted -> Waiting.
PollPending(k) ==
    /\ pc = "idle"
    /\ fs' = FsNone
    /\ StateOf(ops, k) = "Submitted"
    /\ ops' = SetState(ops, k, "Waiting")
    /\ UNCHANGED <<submissions, sq, inflight, cq, pc, batch, flushed, fcRet,
                   enqLog, pushLog, td>>
    /\ UNCHANGED <<fcVisible, submitted, tr>>

\* The observer retrieves the buffered result: the Completed slot is removed.
Retrieve(k) ==
    /\ pc = "idle"
    /\ fs' = FsNone
    /\ StateOf(ops, k) = "Completed"
    /\ ops' = OpsRemove(ops, k)
    /\ UNCHANGED <<submissions, sq, inflight, cq, pc, batch, flushed, fcRet,
                   enqLog, pushLog, td>>
    /\ UNCHANGED <<fcVisible, submitted, tr>>

\* The observer is dropped before completion: Submitted|Waiting -> Ignored.
DropObserver(k) ==
    /\ pc = "idle"
    /\ fs' = FsNone
    /\ StateOf(ops, k) \in {"Submitted", "Waiting"}
    /\ ops' = SetState(ops, k, "Ignored")
    /\ UNCHANGED <<submissions, sq, inflight, cq, pc, batch, flushed, fcRet,
                   enqLog, pushLog, td>>
    /\ UNCHANGED <<fcVisible, submitted, tr>>

\* ------------------------------------------------------------------------
\* The kernel
\* ------------------------------------------------------------------------

\* The kernel completes one of the entries it owns, whichever it likes, and
\* posts the completion event (user_data, result).
KernelComplete ==
    \E e \in inflight :
        \E r \in (IF e.user_data = CancelToken THEN {0} ELSE ResCodes) :
            /\ inflight' = inflight \ {e}
            /\ cq' = Append(cq, [user_data |-> e.user_data, res |-> r])
            /\ UNCHANGED <<ops, submissions, sq, pc, batch, flushed, fcRet,
                           enqLog, pushLog, fs, td, fcVisible, submitted, tr>>

\* Outcomes of io_uring_enter on submit.
SubmitOutcomes == {"Ok", "EBUSY", "EIO"}

\* ------------------------------------------------------------------------
\* Inner::flush_completions
\* ------------------------------------------------------------------------

\* cq.sync(): the events visible now are the ones the loop will iterate.
\* What the kernel posts later is seen by the next call.
FcEnter(ret) ==
    /\ batch' = cq
    /\ cq' = <<>>
    /\ flushed' = 0
    /\ fcRet' = ret
    /\ fcVisible' = Len(cq)
    /\ pc' = "fc_loop"

\* The call is over: its locals are gone.
FcLeave ==
    /\ flushed' = 0
    /\ fcRet' = "idle"
    /\ fcVisible' = 0

\* Driver::flush_completions, called by the event loop.
FlushCompletions ==
    /\ pc = "idle"
    /\ fs' = FsNone
    /\ FcEnter("idle")
    /\ UNCHANGED <<ops, submissions, sq, inflight, enqLog, pushLog, td>>
    /\ UNCHANGED <<submitted, tr>>

\* cqe.user_data() == u64::MAX
IsCancelNever(cqe) == FALSE
IsCancel(cqe) == cqe.user_data = CancelToken

\* flushed += 1, which precedes the test of the identifier.
CountedSkipToken(n, cqe) == IF cqe.user_data = CancelToken THEN n ELSE n + 1
Counted(n, cqe) == n + 1

\* One iteration of `for cqe in cq`.  self.0[index] panics when the slot
\* is absent.
FcStep ==
    /\ pc = "fc_loop"
    /\ batch # <<>>
    /\ LET cqe == Head(batch)
       IN  /\ batch' = Tail(batch)
           /\ flushed' = Counted(flushed, cqe)
           /\ IF IsCancel(cqe)
              THEN /\ ops' = ops
                   /\ pc' = pc
                   /\ td' = td
              ELSE IF IsLive(ops, cqe.user_data)
              THEN /\ ops' = OpsComplete(ops, cqe.user_data, resultify(cqe.res))
                   /\ pc' = pc
                   /\ td' = IF fcRet = "drop"
                            THEN [td EXCEPT !.drained = @ + 1] ELSE td
              ELSE /\ ops' = ops
                   /\ pc' = "panicked"
                   /\ td' = td
    /\ UNCHANGED <<submissions, sq, inflight, cq, fcRet, enqLog, pushLog, fs>>
    /\ UNCHANGED <<fcVisible, submitted, tr>>

\* Driver::flush_completions returns `flushed` to the event loop.
FcReturn ==
    /\ pc = "fc_loop"
    /\ batch = <<>>
    /\ fcRet = "idle"
    /\ pc' = "idle"
    /\ FcLeave
    /\ UNCHANGED <<ops, submissions, sq, inflight, cq, batch, enqLog, pushLog, fs, td>>
    /\ UNCHANGED <<submitted, tr>>

\* ------------------------------------------------------------------------
\* Inner::flush_submissions
\* ------------------------------------------------------------------------

FlushSubmissions ==
    /\ pc = "idle"
    /\ pc' = "fs_outer"
    /\ fs' = [FsNone EXCEPT !.startPending = Len(submissions),
                            !.startSq = Len(sq),
                            !.result = "running"]
    /\ UNCHANGED <<ops, submissions, sq, inflight, cq, batch, flushed, fcRet,
                   enqLog, pushLog, td>>
    /\ UNCHANGED <<fcVisible, submitted, tr>>

\* `while !self.submissions.is_empty()`; Ok(()) when the loop ends.
FsOuter ==
    /\ pc = "fs_outer"
    /\ IF submissions # <<>>
       THEN /\ pc' = "fs_push"
            /\ fs' = fs
       ELSE /\ pc' = "idle"
            /\ fs' = FsReturned(fs, "Ok")
    /\ UNCHANGED <<ops, submissions, sq, inflight, cq, batch, flushed, fcRet,
                   enqLog, pushLog, td>>
    /\ UNCHANGED <<fcVisible, submitted, tr>>

\* self.submissions.push_front(sqe), after a failed push.
PutBackAtBack(rest, sqe) == Append(rest, sqe)
PutBackLost(rest, sqe) == rest
PutBackTwice(rest, sqe) == <<sqe, sqe>> \o rest
PutBack(rest, sqe) == <<sqe>> \o rest

\* One iteration of `while let Some(sqe) = self.submissions.pop_front()`:
\* the entry goes into the ring, or back into the buffer when the ring is
\* full, which ends the loop; so does an empty buffer.
FsPush ==
    /\ pc = "fs_push"
    /\ LET sqe == Head(submissions)
           rest == Tail(submissions)
       IN  IF Len(sq) >= SqCapacity
           THEN /\ submissions' = PutBack(rest, sqe)
                /\ sq' = sq
                /\ pushLog' = pushLog
                /\ fs' = [fs EXCEPT !.putBacks = Tick(@)]
                /\ pc' = "fs_submit"
           ELSE /\ submissions' = rest
                /\ sq' = Append(sq, sqe)
                /\ pushLog' = Append(pushLog, sqe)
                /\ fs' = [fs EXCEPT !.pushed = @ + 1]
                /\ pc' = IF rest = <<>> THEN "fs_submit" ELSE "fs_push"
    /\ UNCHANGED <<ops, inflight, cq, batch, flushed, fcRet, enqLog, td>>
    /\ UNCHANGED <<fcVisible, submitted, tr>>

\* The arms of `match self.uring.submit()`.
SubmitArmNoBusy(outcome) == IF outcome = "Ok" THEN "sync" ELSE "return_err"
SubmitArmErrAsBusy(outcome) == IF outcome = "Ok" THEN "sync" ELSE "flush"
SubmitArm(outcome) ==
    IF outcome = "Ok" THEN "sync"
    ELSE IF outcome = "EBUSY" THEN "flush"
    ELSE "return_err"

\* self.uring.submit(): on success the kernel takes every entry of the
\* ring; on an error it takes none.
FsSubmit ==
    /\ pc = "fs_submit"
    /\ \E outcome \in SubmitOutcomes :
        LET arm == SubmitArm(outcome)
            seen == [fs EXCEPT !.submits = Tick(@), !.retryOwed = FALSE,
                               !.last = outcome,
                               !.busy = (@ \/ outcome = "EBUSY")]
        IN  CASE arm = "sync" ->
                    /\ inflight' = inflight \cup Range(sq)
                    /\ submitted' = submitted \cup Range(sq)
                    /\ sq' = <<>>
                    /\ pc' = "fs_outer"
                    /\ fs' = [seen EXCEPT !.okSubmits = Tick(@)]
                    /\ UNCHANGED <<cq, batch, flushed, fcRet, fcVisible>>
              [] arm = "flush" ->
                    /\ FcEnter("fs")
                    /\ fs' = seen
                    /\ UNCHANGED <<sq, inflight, submitted>>
              [] OTHER ->
                    /\ pc' = "idle"
                    /\ fs' = FsReturned(seen, outcome)
                    /\ UNCHANGED <<sq, inflight, cq, batch, flushed, fcRet,
                                   fcVisible, submitted>>
    /\ UNCHANGED <<ops, submissions, enqLog, pushLog, td>>
    /\ UNCHANGED <<tr>>

\* `match self.flush_completions()`: what follows a busy submit.
AfterBusyAlwaysRetry(n) == "break"
AfterBusy(n) == IF n = 0 THEN "return_ok" ELSE "break"

\* flush_completions returns to flush_submissions: 0 => return Ok(()),
\* _ => break, which leaves the inner loop for the outer loop's test.
FsAfterBusy ==
    /\ pc = "fc_loop"
    /\ batch = <<>>
    /\ fcRet = "fs"
    /\ IF AfterBusy(flushed) = "return_ok"
       THEN /\ pc' = "idle"
            /\ fs' = FsReturned([fs EXCEPT !.zeroDrain = (flushed = 0)], "Ok")
       ELSE /\ pc' = "fs_outer"
            /\ fs' = [fs EXCEPT !.zeroDrain = (flushed = 0),
                                !.retryOwed = (flushed > 0)]
    /\ FcLeave
    /\ UNCHANGED <<ops, submissions, sq, inflight, cq, batch, enqLog, pushLog, td>>
    /\ UNCHANGED <<submitted, tr>>

\* ------------------------------------------------------------------------
\* Driver::drop, Driver::wait
\* ------------------------------------------------------------------------

\* The Driver is dropped: the teardown loop starts.
DriverDrop ==
    /\ pc = "idle"
    /\ fs' = FsNone
    /\ pc' = "drop_check"
    /\ td' = [TdNone EXCEPT !.K = num_operations,
                            !.pristine = \A k \in LiveKeys(ops) :
                                            StateOf(ops, k) # "Completed"]
    /\ UNCHANGED <<ops, submissions, sq, inflight, cq, batch, flushed, fcRet,
                   enqLog, pushLog>>
    /\ UNCHANGED <<fcVisible, submitted, tr>>

\* `while self.num_operations() > 0`
DropLoopCondOffByOne == num_operations > 1
DropLoopCond == num_operations > 0

DropCheck ==
    /\ pc = "drop_check"
    /\ pc' = IF DropLoopCond THEN "drop_wait" ELSE "drop_done"
    /\ UNCHANGED <<ops, submissions, sq, inflight, cq, batch, flushed, fcRet,
                   enqLog, pushLog, fs, td>>
    /\ UNCHANGED <<fcVisible, submitted, tr>>

\* Driver::wait enters submit_and_wait(1): the kernel takes the entries of
\* the submission ring and the thread blocks.
DropWait ==
    /\ pc = "drop_wait"
    /\ inflight' = inflight \cup Range(sq)
    /\ submitted' = submitted \cup Range(sq)
    /\ sq' = <<>>
    /\ pc' = "drop_blocked"
    /\ UNCHANGED <<ops, submissions, cq, batch, flushed, fcRet, enqLog, pushLog, fs, td>>
    /\ UNCHANGED <<fcVisible, tr>>

\* submit_and_wait(1) returns Ok once a completion is there; the loop body
\* goes on to flush_completions.
DropWake ==
    /\ pc = "drop_blocked"
    /\ cq # <<>>
    /\ FcEnter("drop")
    /\ UNCHANGED <<ops, submissions, sq, inflight, enqLog, pushLog, fs, td>>
    /\ UNCHANGED <<submitted, tr>>

\* submit_and_wait(1) returns an error, at once or out of the blocked call:
\* `self.wait().unwrap()` panics.
DropWaitFails ==
    /\ pc \in {"drop_wait", "drop_blocked"}
    /\ pc' = "drop_panicked"
    /\ UNCHANGED <<ops, submissions, sq, inflight, cq, batch, flushed, fcRet,
                   enqLog, pushLog, fs, td>>
    /\ UNCHANGED <<fcVisible, submitted, tr>>

\* flush_completions returns to the teardown loop.
DropAfterFlush ==
    /\ pc = "fc_loop"
    /\ batch = <<>>
    /\ fcRet = "drop"
    /\ pc' = "drop_check"
    /\ FcLeave
    /\ UNCHANGED <<ops, submissions, sq, inflight, cq, batch, enqLog, pushLog, fs, td>>
    /\ UNCHANGED <<submitted, tr>>

\* ------------------------------------------------------------------------
\* impl Drop for Ops
\* ------------------------------------------------------------------------

\* self.0.is_empty()
OpsIsEmpty(o) == o.len = 0

\* The Driver's handle is gone, by the return of Driver::drop or by the
\* unwinding of its panic, and no observer is left to hold another one:
\* Inner is dropped and with it Ops, whose destructor asserts that the
\* registry is empty.
OpsDrop ==
    /\ pc \in {"drop_done", "drop_panicked"}
    /\ \A k \in LiveKeys(ops) : StateOf(ops, k) = "Ignored"
    /\ pc' = IF OpsIsEmpty(ops) THEN "ops_dropped" ELSE "ops_assert_failed"
    /\ UNCHANGED <<ops, submissions, sq, inflight, cq, batch, flushed, fcRet,
                   enqLog, pushLog, fs, td, fcVisible, submitted, tr>>

\* ------------------------------------------------------------------------
\* Specification
\* ------------------------------------------------------------------------

Keys == 0..(MaxEntries - 1)

Next ==
    \/ SubmitOp
    \/ SubmitCancel
    \/ \E k \in Keys : PollPending(k)
    \/ \E k \in Keys : Retrieve(k)
    \/ \E k \in Keys : DropObserver(k)
    \/ KernelComplete
    \/ FlushCompletions
    \/ FcStep
    \/ FcReturn
    \/ FlushSubmissions
    \/ FsOuter
    \/ FsPush
    \/ FsSubmit
    \/ FsAfterBusy
    \/ DriverDrop
    \/ DropCheck
    \/ DropWait
    \/ DropWake
    \/ DropWaitFails
    \/ DropAfterFlush
    \/ OpsDrop

Spec == Init /\ [][Next]_vars

\* ========================================================================
\* Properties
\* ========================================================================

IsPrefix(s, t) == Len(s) <= Len(t) /\ \A i \in 1..Len(s) : s[i] = t[i]

\* The operations (not cancel requests) registered so far.
Inserted == {i \in 1..Len(enqLog) : enqLog[i].user_data # CancelToken}

\* ------------------------------------------------------------------------
\* C1: Driver::drop returns normally only with an empty registry: where the
\* teardown loop has exited, num_operations() = 0 and no slot is live.
C1_DropReturnsOnlyWhenEmpty ==
    pc = "drop_done" => (num_operations = 0 /\ LiveKeys(ops) = {})

\* A teardown that started with live slots, drained a completion and
\* returned.
C1_Witness ==
    pc = "drop_done" /\ td.K > 0 /\ td.drained > 0

\* ------------------------------------------------------------------------
\* C2 (as claimed): a failing wait() during teardown is swallowed; the
\* teardown never panics.
C2_WaitErrorSwallowed ==
    pc # "drop_panicked"

\* ------------------------------------------------------------------------
\* C3 (as claimed): a teardown that starts with K live slots, none of them
\* completed, ends only after exactly K completions were drained; once K are
\* drained the registry is empty and no further wait is issued.
C3_TeardownDrainsK ==
    (pc \in {"drop_check", "drop_wait", "drop_blocked", "drop_done", "drop_panicked"}
        /\ td.pristine)
    => /\ pc \in {"drop_done", "drop_panicked"} => td.drained = td.K
       /\ td.drained = td.K => num_operations = 0
       /\ pc \in {"drop_wait", "drop_blocked"} => td.drained < td.K

\* ------------------------------------------------------------------------
\* C4: the index insert() returns is not the index of a slot that is live
\* when it is called, so an index comes back only after its slot was
\* removed; the insertion makes that slot live, in state Submitted, and
\* leaves every other slot as it was.
C4_InsertIndexFresh ==
    [][ (Len(enqLog') > Len(enqLog) /\ enqLog'[Len(enqLog')].user_data # CancelToken)
        => LET key == enqLog'[Len(enqLog')].user_data
           IN  /\ ~IsLive(ops, key)
               /\ StateOf(ops', key) = "Submitted"
               /\ LiveKeys(ops') = LiveKeys(ops) \cup {key}
               /\ \A k \in LiveKeys(ops) : ops'.entries[k + 1] = ops.entries[k + 1]
               /\ ops'.len = Cardinality(LiveKeys(ops')) ]_vars

\* An index was handed out a second time while another slot is live.
C4_Witness ==
    /\ Cardinality(Inserted) > Len(ops.entries)
    /\ ops.len = 2

\* ------------------------------------------------------------------------
\* C5: a completion event carrying the Cancellation Token is consumed and
\* counted, and the registry is left exactly as it was.
C5_TokenNotRouted ==
    [][ (pc = "fc_loop" /\ batch # <<>> /\ batch' = Tail(batch)
            /\ Head(batch).user_data = CancelToken)
        => (ops' = ops /\ flushed' = flushed + 1 /\ pc' = "fc_loop") ]_vars

\* One operation and at least one cancel request were enqueued; the flush
\* has consumed one event and the operation's slot is still Ignored and
\* live, so the event it consumed was the token's.
C5_Witness ==
    /\ pc = "fc_loop"
    /\ flushed = 1
    /\ Cardinality(Inserted) = 1
    /\ Len(enqLog) > 1
    /\ ops.len = 1
    /\ \E k \in LiveKeys(ops) : StateOf(ops, k) = "Ignored"

\* ------------------------------------------------------------------------
\* C6: an Ignored slot stays Ignored and live over every step but the one
\* in which flush_completions processes the completion of that slot; that
\* step removes it.  It never becomes Completed, so no observer reads it.
C6_IgnoredUntilCompletion ==
    [][ \A k \in LiveKeys(ops) :
          StateOf(ops, k) = "Ignored"
          => IF pc = "fc_loop" /\ batch # <<>> /\ batch' = Tail(batch)
                  /\ Head(batch).user_data = k
             THEN StateOf(ops', k) = "Vacant"
             ELSE StateOf(ops', k) = "Ignored" ]_vars

\* The only operation ever registered was completed in this flush and its
\* slot is gone: it was Ignored, a Submitted or Waiting slot would now be
\* Completed.
C6_Witness ==
    /\ pc = "fc_loop"
    /\ flushed = 1
    /\ Len(enqLog) = 1
    /\ Cardinality(Inserted) = 1
    /\ ops.len = 0

\* ------------------------------------------------------------------------
\* C7: the entries pushed into the kernel submission ring are, in order,
\* the first entries enqueued.
C7_PushOrder ==
    IsPrefix(pushLog, enqLog)

\* A call that had a push fail on the full ring and pushed again afterwards.
C7_Witness ==
    fs.putBacks >= 1 /\ fs.pushed >= 2 /\ Len(pushLog) >= 2

\* ------------------------------------------------------------------------
\* C8: a flush that starts with an empty ring of capacity N and N + 1
\* pending entries makes its first submit after N pushes, with the ring
\* full and 1 entry pending; it pushes the remaining entry only after a
\* submit succeeded and emptied the ring; the entries keep their order.
C8_Backpressure ==
    (fs.result = "running" /\ fs.startSq = 0 /\ fs.startPending = SqCapacity + 1)
    => /\ (pc = "fs_submit" /\ fs.submits = 0)
            => (fs.pushed = SqCapacity /\ Len(sq) = SqCapacity
                /\ Len(submissions) = 1)
       /\ fs.submits = 0 => fs.pushed <= SqCapacity
       /\ fs.pushed > SqCapacity => fs.okSubmits >= 1
       /\ pushLog \o submissions = enqLog

\* Such a flush has pushed and submitted the remaining entry.
C8_Witness ==
    /\ fs.result = "running" /\ fs.startSq = 0 /\ fs.startPending = SqCapacity + 1
    /\ fs.pushed = SqCapacity + 1
    /\ fs.okSubmits = 2

\* ------------------------------------------------------------------------
\* C9: flush_submissions never returns the busy error, and a busy submit
\* whose completion flush drained nothing ends the call with Ok at once.
C9_BusyNotSurfaced ==
    /\ fs.result # "EBUSY"
    /\ fs.zeroDrain => fs.result = "Ok"

\* The call returned Ok after a busy submit that drained nothing, leaving
\* what it pushed in the ring.
C9_Witness ==
    fs.zeroDrain /\ fs.result = "Ok" /\ pc = "idle" /\ sq # <<>>

\* ------------------------------------------------------------------------
\* C10 (as claimed): after a busy submit whose completion flush drained one
\* or more events, flush_submissions calls submit again before it returns.
C10_RetryBeforeReturn ==
    fs.result \in {"Ok", "EIO"} => ~fs.retryOwed

\* ------------------------------------------------------------------------
\* C11: when submit fails with an error other than busy, that step ends the
\* call with that error: nothing is pushed, no completion is flushed, the
\* rings, the buffer and the registry are left as they were.
C11_OtherErrorPropagates ==
    [][ (pc = "fs_submit" /\ fs' # fs /\ fs'.last = "EIO")
        => /\ pc' = "idle"
           /\ fs'.result = "EIO"
           /\ UNCHANGED <<ops, submissions, sq, inflight, cq, batch, flushed,
                          pushLog, submitted>> ]_vars

\* The call returned the error while the ring held a pushed entry, the
\* buffer a pending one and the completion ring an event it did not flush.
C11_Witness ==
    /\ fs.result = "EIO"
    /\ pc = "idle"
    /\ sq # <<>>
    /\ submissions # <<>>
    /\ cq # <<>>

\* ------------------------------------------------------------------------
\* C12: flush_completions takes every event visible in the completion ring
\* when it is called, and the count it returns is the number of events it
\* took, tokens included (0 exactly when none was visible).
C12_FlushCount ==
    [][ /\ (pc # "fc_loop" /\ pc' = "fc_loop")
            => (batch' = cq /\ cq' = <<>> /\ flushed' = 0 /\ fcVisible' = Len(cq))
        /\ pc = "fc_loop" => flushed + Len(batch) = fcVisible
        /\ (pc = "fc_loop" /\ pc' \notin {"fc_loop", "panicked"})
            => (batch = <<>> /\ flushed = fcVisible) ]_vars

\* A call about to return 2 although a single operation was ever
\* registered: one of the two events it counted was a token's.
C12_Witness ==
    /\ pc = "fc_loop"
    /\ batch = <<>>
    /\ flushed = 2
    /\ fcVisible = 2
    /\ Cardinality(Inserted) = 1

\* ------------------------------------------------------------------------
\* The thread runs: inside flush_submissions, and inside the completion
\* flush it calls, the next step of the code is taken.
FairSpec ==
    /\ Spec
    /\ WF_vars(FsOuter)
    /\ WF_vars(FsPush)
    /\ WF_vars(FsSubmit)
    /\ WF_vars(FcStep)
    /\ WF_vars(FsAfterBusy)

\* C13: every call of flush_submissions returns, whatever the submits
\* report and whatever the kernel posts meanwhile.
C13_FlushSubmissionsReturns ==
    (fs.result = "running") ~> (fs.result \in {"Ok", "EIO"})

\* A call that went through a busy submit, drained events, came back to
\* the outer loop and has returned.
C13_Witness ==
    /\ fs.result = "Ok"
    /\ fs.retryOwed
    /\ fs.last = "EBUSY"
    /\ pc = "idle"

\* ------------------------------------------------------------------------
\* The Result Translator on its own
\* ------------------------------------------------------------------------

RawCodes ==
    {I32Min + d : d \in 0..RawSpan} \cup ((-RawSpan)..RawSpan)
        \cup {I32Max - d : d \in 0..RawSpan}

\* What a call of resultify yields.  `-res` overflows for i32::MIN: a build
\* with overflow checks panics there, a build without them wraps to
\* i32::MIN and makes the error of that code.
ResultifyBuilds(res) ==
    IF res = I32Min
    THEN {[kind |-> "panic", val |-> 0], [kind |-> "Err", val |-> I32Min]}
    ELSE {[kind |-> IF resultify(res).ok THEN "Ok" ELSE "Err",
           val  |-> resultify(res).val]}

InitTr ==
    /\ ops = OpsNew
    /\ submissions = <<>>
    /\ sq = <<>>
    /\ inflight = {}
    /\ cq = <<>>
    /\ pc = "idle"
    /\ batch = <<>>
    /\ flushed = 0
    /\ fcRet = "idle"
    /\ enqLog = <<>>
    /\ pushLog = <<>>
    /\ fs = FsNone
    /\ td = TdNone
    /\ fcVisible = 0
    /\ submitted = {}
    /\ \E r \in RawCodes : tr = [TrNone EXCEPT !.raw = r]

Translate ==
    /\ tr.out.kind = "none"
    /\ \E o \in ResultifyBuilds(tr.raw) : tr' = [tr EXCEPT !.out = o]
    /\ UNCHANGED <<ops, submissions, sq, inflight, cq, pc, batch, flushed, fcRet,
                   enqLog, pushLog, fs, td, fcVisible, submitted>>

NextTr == Translate

TrSpec == InitTr /\ [][NextTr]_vars

\* The translation of raw is what the claim says: Ok(raw) for raw >= 0,
\* the error of code e for raw = -e < 0.
TrAsClaimed ==
    IF tr.raw >= 0
    THEN tr.out = [kind |-> "Ok", val |-> tr.raw]
    ELSE /\ tr.out.kind = "Err"
         /\ tr.out.val > 0
         /\ tr.out.val - 1 = -(tr.raw + 1)

\* C14 (as claimed): resultify is defined on every i32 and yields Ok(r) for
\* r >= 0 and the error of code e for r = -e < 0.
C14_TranslateWholeRange ==
    tr.out.kind # "none" => TrAsClaimed

\* C14 (amended): the same for every i32 but i32::MIN, where -r overflows;
\* translate(5) = Ok(5), translate(0) = Ok(0), translate(-2) = error 2.
C14_TranslateButMin ==
    /\ (tr.out.kind # "none" /\ tr.raw # I32Min) => TrAsClaimed
    /\ (tr.out.kind # "none" /\ tr.raw = 5) => tr.out = [kind |-> "Ok", val |-> 5]
    /\ (tr.out.kind # "none" /\ tr.raw = 0) => tr.out = [kind |-> "Ok", val |-> 0]
    /\ (tr.out.kind # "none" /\ tr.raw = -2) => tr.out = [kind |-> "Err", val |-> 2]

\* The most negative code whose negation fits was translated.
C14_Witness ==
    tr.raw = I32Min + 1 /\ tr.out = [kind |-> "Err", val |-> I32Max]

\* ------------------------------------------------------------------------
\* C15 (as claimed): whenever the registry is destroyed it is empty: the
\* assertion of Ops::drop never fails.
C15_OpsEmptyWhenDropped ==
    pc # "ops_assert_failed"

\* ------------------------------------------------------------------------
\* C16: processing the completion event of slot i feeds the transition of
\* slot i, removes slot i exactly when the transition reports it terminal,
\* and leaves every other slot as it was.
C16_CompletionTouchesOneSlot ==
    [][ (pc = "fc_loop" /\ batch # <<>> /\ batch' = Tail(batch)
            /\ Head(batch).user_data # CancelToken
            /\ IsLive(ops, Head(batch).user_data))
        => LET i == Head(batch).user_data
               t == LifecycleComplete(ops.entries[i + 1], resultify(Head(batch).res))
           IN  /\ IsLive(ops', i) <=> ~t.terminal
               /\ IsLive(ops', i) => ops'.entries[i + 1] = t.lc
               /\ \A k \in Keys \ {i} :
                    /\ StateOf(ops', k) = StateOf(ops, k)
                    /\ IsLive(ops, k) => ops'.entries[k + 1] = ops.entries[k + 1]
               /\ ops'.len = Cardinality(LiveKeys(ops')) ]_vars

\* Of two operations, the one registered second was completed first: its
\* slot is Completed while the first one's still awaits its completion.
C16_Witness ==
    /\ pc = "fc_loop"
    /\ flushed = 1
    /\ Cardinality(Inserted) = 2
    /\ StateOf(ops, 1) = "Completed"
    /\ StateOf(ops, 0) \in {"Submitted", "Waiting", "Ignored"}

\* ------------------------------------------------------------------------
\* C17: every non-token completion event that flush_completions drains
\* refers to a live slot. A slot stays live, and not yet completed, for as
\* long as its entry is pending, pushed, owned by the kernel or its event
\* is posted and undrained; the indexed lookup never hits an absent slot.
Outstanding ==
    Range(submissions) \cup Range(sq) \cup inflight \cup Range(cq) \cup Range(batch)

C17_DrainedEventsHitLiveSlots ==
    /\ pc # "panicked"
    /\ \A e \in Outstanding :
          e.user_data # CancelToken
              => StateOf(ops, e.user_data) \in {"Submitted", "Waiting", "Ignored"}

\* A slot whose observer is gone was reclaimed by its own completion while
\* another operation's event is still waiting in the same batch.
C17_Witness ==
    /\ pc = "fc_loop"
    /\ fcVisible = 2
    /\ flushed = 1
    /\ Len(batch) = 1
    /\ Head(batch).user_data # CancelToken
    /\ IsLive(ops, Head(batch).user_data)
    /\ ops.len = 1
    /\ Cardinality(Inserted) = 2

\* ------------------------------------------------------------------------
\* C18: no submission entry is lost or duplicated. In every state each
\* entry ever enqueued is in exactly one of: the pending buffer, the
\* submission ring (pushed, not yet submitted), the set already submitted.
C18_NoEntryLostOrDuplicated ==
    LET pending == Range(submissions)
        pushed  == Range(sq)
    IN  /\ pending \cup pushed \cup submitted = Range(enqLog)
        /\ pending \cap pushed = {}
        /\ pending \cap submitted = {}
        /\ pushed \cap submitted = {}
        /\ Cardinality(pending) = Len(submissions)
        /\ Cardinality(pushed) = Len(sq)
        /\ Cardinality(Range(enqLog)) = Len(enqLog)

\* flush_submissions returned, with an error or through the busy path, and
\* left entries in all three places.
C18_Witness ==
    /\ pc = "idle"
    /\ fs.result \in {"EIO", "Ok"}
    /\ fs.last \in {"EIO", "EBUSY"}
    /\ Len(submissions) = 1
    /\ Len(sq) = 1
    /\ Cardinality(submitted) = 1
    /\ Len(enqLog) = 3

\* ------------------------------------------------------------------------
\* C19: when flush_submissions returns Ok and no submit of the call
\* reported busy, the pending buffer is empty and every entry that was
\* pending when the call started has been submitted to the kernel; none of
\* them is left in the submission ring.
PendingAtStart ==
    {enqLog[i] : i \in (Len(enqLog) - fs.startPending + 1)..Len(enqLog)}

C19_CleanReturnSubmitsAll ==
    [][ (fs.result = "running" /\ fs'.result = "Ok" /\ ~fs.busy)
        => /\ submissions' = <<>>
           /\ PendingAtStart \subseteq submitted'
           /\ PendingAtStart \cap Range(sq') = {}
           /\ fs.startPending > 0 => sq' = <<>> ]_vars

\* A call that started with more entries than the ring holds reaches its
\* return with every submit successful: the loop test finds the buffer
\* empty, the ring is empty and every entry is with the kernel.
C19_Witness ==
    /\ pc = "fs_outer"
    /\ fs.result = "running"
    /\ ~fs.busy
    /\ fs.startPending > SqCapacity
    /\ fs.okSubmits >= 2
    /\ fs.putBacks >= 1
    /\ submissions = <<>>
    /\ sq = <<>>
    /\ PendingAtStart \subseteq submitted

\* ------------------------------------------------------------------------
\* Teardown under a kernel that completes every entry it is given: the
\* kernel's completions and the steps of the teardown loop are not
\* postponed forever.
TeardownFairSpec ==
    /\ Spec
    /\ WF_vars(KernelComplete)
    /\ WF_vars(DropCheck)
    /\ WF_vars(DropWait)
    /\ WF_vars(DropWake)
    /\ WF_vars(FcStep)
    /\ WF_vars(DropAfterFlush)

\* C20 (as claimed): teardown terminates whenever the kernel completes
\* every entry it is given, also when it starts with live slots whose
\* entries are still in the pending buffer. The exit by a failing wait is
\* counted as an exit here: what is left is the wait that never wakes.
C20_TeardownTerminates ==
    (pc = "drop_check") ~> (pc \in {"drop_done", "drop_panicked"})

====
